---- MODULE Spec2Model ----
(***************************************************************************)
(* AMI housekeeper: lambdas/functions/ami-housekeeper/src/{lambda,ami}.ts  *)
(*                                                                         *)
(* One invocation of the housekeeper (or one direct call of amiCleanup),   *)
(* against an account holding a few images.  Every provider call is a      *)
(* request that is sent at one step and completes, with success or         *)
(* failure, at a later step.  `trace` records, in order, every request     *)
(* sent and the completion of every request the flow of control awaits.    *)
(* Time is counted in days.  Spec follows one run, FairSpec one run whose   *)
(* requests all complete, SpecTwice two runs in succession.                *)
(***************************************************************************)
EXTENDS Integers, Sequences, FiniteSets, TLC

VARIABLES
    entry,              \* "housekeeperAmi" or "amiCleanup" (direct call)
    config,             \* process.env.AMI_CLEANUP_OPTIONS / the options argument
    parameters,         \* the values of the SSM parameters whose name contains 'ami-id'
    launchTemplates,    \* the image ids of the default versions of the launch templates
    images,             \* the images registered in the account, in listing order
    now,                \* the day of the run (a run takes seconds)
    pc,                 \* position of the main flow of control
    mergedOptions,      \* amiCleanup: mergedOptions
    amiIdsInSSM,        \* getAmisReferedInSSM: results of the GetParameter callbacks
    amiIdsInTemplates,  \* getAmiInLatestTemplates: results of the version callbacks
    amiEc2,             \* getAmisNotInUse: amiEc2.Images, sorted
    amisNotInUse,       \* amiCleanup: amisNotInUse
    idx,                \* amiCleanup: position of the for-loop in amisNotInUse
    pendingDeregisters, \* deleteAmi: DeregisterImage requests in flight (image ids)
    pendingSnapshots,   \* deleteSnapshot: callbacks awaiting their DeleteSnapshot
    deletedSnapshots,   \* snapshots whose DeleteSnapshot succeeded
    trace,              \* requests sent and awaited completions, in order
    cleanupResult,      \* promise of amiCleanup: "none", "pending", "resolved", "rejected"
    handlerResult,      \* promise of housekeeperAmi: "none", "pending", "resolved", "rejected"
    errorLogs,          \* logger.error calls of lambda.ts
    snapshotErrorLogs,  \* logger.error calls of deleteSnapshot
    unhandledRejections \* rejected promises nobody awaits or catches

vars == <<entry, config, parameters, launchTemplates, images, now, pc, mergedOptions, amiIdsInSSM,
          amiIdsInTemplates, amiEc2, amisNotInUse, idx, pendingDeregisters,
          pendingSnapshots,
          deletedSnapshots, trace, cleanupResult, handlerResult, errorLogs, snapshotErrorLogs,
          unhandledRejections>>

----------------------------------------------------------------------------
(* The world of the model *)

\* the number of images the account may hold at once
MaxImages == 3

\* the SSM parameters whose name contains 'ami-id' (each may exist or not)
ParameterNames == {"ami-id-runner"}
MaxParams == Cardinality(ParameterNames)

\* the launch templates of the account (each may exist or not)
LaunchTemplateIds == {"lt-1234"}
MaxTemplates == Cardinality(LaunchTemplateIds)

----------------------------------------------------------------------------
(* JavaScript values *)

Undefined == [t |-> "undefined", v |-> 0]
Num(n) == [t |-> "number", v |-> n]
Str(x) == [t |-> "string", v |-> x]

\* a value in a boolean context (numbers and dates of the model: 0 is falsy)
Truthy(x) == x.t = "number" /\ x.v # 0

\* defaultAmiCleanupOptions.minimumDaysOld
DefaultMinimumDaysOld == 30

StartNow == DefaultMinimumDaysOld + 1

Image(id, date, maps) == [ImageId |-> id, CreationDate |-> date, BlockDeviceMappings |-> maps]

\* The images an account may hold.  CreationDate is absent or a day (an ISO
\* string in the code); BlockDeviceMappings tells, per mapping, whether
\* Ebs.SnapshotId is set.
Catalogue ==
    {Image("ami-noCreationDate", Undefined, << >>),
     Image("ami-old0001", Num(StartNow - DefaultMinimumDaysOld), <<TRUE, FALSE, TRUE>>),
     Image("ami-old0002", Num(StartNow - DefaultMinimumDaysOld), << >>),
     Image("ami-notOld0001", Num(StartNow - 1), <<TRUE>>)}

ImageIds == {image.ImageId : image \in Catalogue}

DeviceIndexes == UNION {DOMAIN image.BlockDeviceMappings : image \in Catalogue}

\* the accounts: up to MaxImages images of the catalogue, in any listing order
Accounts ==
    UNION {{a \in [1..n -> Catalogue] : \A i, j \in 1..n : a[i] = a[j] => i = j}
            : n \in 0..MaxImages}

----------------------------------------------------------------------------
(* Options *)

Absent == [t |-> "absent", v |-> 0]
True == [t |-> "boolean", v |-> 1]

\* an empty list of parameter names
EmptyList == [t |-> "array", v |-> 0]

OptionKeys == {"minimumDaysOld", "maxItems", "dryRun", "ssmParameterNames"}

\* an options object: the keys given a value (undefined and null are values)
OptionsObject(vals) == [k \in {key \in OptionKeys : vals[key] # Absent} |-> vals[k]]

\* what JSON.parse can return for AMI_CLEANUP_OPTIONS (no undefined in JSON)
JsonOptions ==
    {OptionsObject(vals) : vals \in [minimumDaysOld : {Absent, Num(1)},
                                     maxItems : {Absent, Num(0), Num(1)},
                                     dryRun : {Absent, True},
                                     ssmParameterNames : {Absent}]}
        \cup {OptionsObject(vals) : vals \in [minimumDaysOld : {Absent},
                                               maxItems : {Absent},
                                               dryRun : {Absent},
                                               ssmParameterNames : {EmptyList}]}

\* what only a direct caller of amiCleanup can pass: an option given as undefined
\* (with the options above a direct call runs as the call by the handler does)
CallerOptions ==
    {OptionsObject(vals) : vals \in [minimumDaysOld : {Undefined},
                                     maxItems : {Absent, Num(1)},
                                     dryRun : {Absent},
                                     ssmParameterNames : {Absent}]}

Configs ==
    {[kind |-> k, value |-> << >>] : k \in {"missing", "malformed"}}
        \cup {[kind |-> "object", value |-> o] : o \in JsonOptions \cup CallerOptions}

defaultAmiCleanupOptions ==
    [minimumDaysOld |-> Num(DefaultMinimumDaysOld), maxItems |-> Undefined]

\* { ...defaultAmiCleanupOptions, ...options }
Merge(defaults, options) ==
    [k \in DOMAIN defaults \cup DOMAIN options |->
        IF k \in DOMAIN options THEN options[k] ELSE defaults[k]]

----------------------------------------------------------------------------
(* Dates *)

NaN == [t |-> "NaN", v |-> 0]

\* ToNumber, as the subtraction in setDate applies it
ToNumber(x) ==
    CASE x.t = "number" -> x
      [] x.t = "null" -> Num(0)
      [] x.t = "boolean" -> Num(x.v)
      [] OTHER -> NaN

\* new Date(); setDate(getDate() - minimumDaysOld): an invalid date for NaN
MinimumDaysOldDate(today, minimumDaysOld) ==
    IF ToNumber(minimumDaysOld).t = "number"
        THEN Num(today - ToNumber(minimumDaysOld).v)
        ELSE NaN

\* a > b on dates: false when either is invalid
After(a, b) == a.t = "number" /\ b.t = "number" /\ a.v > b.v

\* a >= b on dates: false when either is invalid
AtOrAfter(a, b) == a.t = "number" /\ b.t = "number" /\ a.v >= b.v

----------------------------------------------------------------------------
(* The sort of getAmisNotInUse *)

\* the comparator of amiEc2.Images.sort
Compare(a, b) ==
    IF a.CreationDate.t = "number" /\ b.CreationDate.t = "number"
        THEN a.CreationDate.v - b.CreationDate.v
        ELSE 0

\* Array.prototype.sort leaves the order implementation-defined when the
\* comparator is not consistent, as here once an image without a date stands
\* between two dates.  The handler runs on Node.js: V8 sorts an array of fewer
\* than 32 elements by finding the run the array starts with (reversing it
\* when strictly descending) and inserting the other elements by binary search.

\* the length of the run s starts with, given the run found so far
RECURSIVE RunLength(_, _, _)
RunLength(s, descending, len) ==
    IF len >= Len(s)
        THEN len
        ELSE IF descending = (Compare(s[len + 1], s[len]) < 0)
            THEN RunLength(s, descending, len + 1)
            ELSE len

Reverse(s) == [i \in DOMAIN s |-> s[Len(s) + 1 - i]]

\* s with its initial run made ascending, and the length of that run
MakeRun(s) ==
    IF Len(s) < 2
        THEN [array |-> s, run |-> Len(s)]
        ELSE LET descending == Compare(s[2], s[1]) < 0
                 run == RunLength(s, descending, 2)
             IN [array |-> IF descending
                              THEN Reverse(SubSeq(s, 1, run)) \o SubSeq(s, run + 1, Len(s))
                              ELSE s,
                 run |-> run]

\* binary search for the place of pivot among s[left + 1 .. right] (0-based bounds)
RECURSIVE InsertionPoint(_, _, _, _)
InsertionPoint(s, pivot, left, right) ==
    IF left >= right
        THEN left
        ELSE LET mid == left + ((right - left) \div 2)
             IN IF Compare(pivot, s[mid + 1]) < 0
                    THEN InsertionPoint(s, pivot, left, mid)
                    ELSE InsertionPoint(s, pivot, mid + 1, right)

\* binary insertion sort of s, whose first `sorted` elements are in order
RECURSIVE BinaryInsertionSort(_, _)
BinaryInsertionSort(s, sorted) ==
    IF sorted >= Len(s)
        THEN s
        ELSE LET pivot == s[sorted + 1]
                 at == InsertionPoint(s, pivot, 0, sorted)
             IN BinaryInsertionSort(
                    SubSeq(s, 1, at) \o <<pivot>> \o SubSeq(s, at + 1, sorted)
                        \o SubSeq(s, sorted + 2, Len(s)),
                    sorted + 1)

\* amiEc2.Images?.sort(comparator)
Sort(s) == BinaryInsertionSort(MakeRun(s).array, MakeRun(s).run)

Includes(arr, x) == \E i \in DOMAIN arr : arr[i] = x

\* the filter, had it forgotten the launch templates
FilterSsmOnly(s, ssm, templates) ==
    SelectSeq(s, LAMBDA image : ~Includes(ssm, Str(image.ImageId)))

\* amiEc2.Images.filter(...)
Filter(s, ssm, templates) ==
    SelectSeq(s, LAMBDA image :
        ~Includes(ssm, Str(image.ImageId)) /\ ~Includes(templates, Str(image.ImageId)))

\* the answer to DescribeImages: at most MaxResults images of the account
DescribeImages(account, maxResults) ==
    IF maxResults.t = "number" /\ maxResults.v < Len(account)
        THEN SubSeq(account, 1, maxResults.v)
        ELSE account

----------------------------------------------------------------------------
(* Requests *)

\* an entry of the trace: a request sent ("send") or its completion ("ok", "fail")
Event(type, cmd, id, dev, at) ==
    [type |-> type, cmd |-> cmd, ImageId |-> id, DeviceIndex |-> dev, at |-> at]

Send(cmd, dev) == Event("send", cmd, "", dev, now)
Done(cmd, dev, ok) == Event(IF ok THEN "ok" ELSE "fail", cmd, "", dev, now)

\* the requests a map over n elements sends, in order
SendAll(cmd, n) == [k \in 1..n |-> Send(cmd, k)]

Pending == [t |-> "pending", v |-> 0]

\* the values a resolved parameter or a default template version can carry
ReferenceValues == {Undefined} \cup {Str(id) : id \in ImageIds}

\* the parameter registry: the value of each parameter DescribeParameters finds
Registries == UNION {[1..n -> ReferenceValues] : n \in 0..MaxParams}

\* the launch templates: the image id of the default version of each
TemplateSets == UNION {[1..n -> ReferenceValues] : n \in 0..MaxTemplates}

----------------------------------------------------------------------------
(* Initial state: the handler, or amiCleanup, has just been called *)

Init ==
    /\ entry \in {"housekeeperAmi", "amiCleanup"}
    /\ config \in Configs
    /\ entry = "housekeeperAmi" =>
            config.kind # "object" \/ config.value \in JsonOptions
    /\ entry = "amiCleanup" =>
            config.kind = "object" /\ config.value \in CallerOptions
    /\ parameters \in Registries
    /\ launchTemplates \in TemplateSets
    /\ images \in Accounts
    /\ now = StartNow
    /\ pc = "start"
    /\ mergedOptions = << >>
    /\ amiIdsInSSM = << >>
    /\ amiIdsInTemplates = << >>
    /\ amiEc2 = << >>
    /\ amisNotInUse = << >>
    /\ idx = 0
    /\ pendingDeregisters = {}
    /\ pendingSnapshots = {}
    /\ deletedSnapshots = {}
    /\ trace = << >>
    /\ cleanupResult = "none"
    /\ handlerResult = IF entry = "housekeeperAmi" THEN "pending" ELSE "none"
    /\ errorLogs = 0
    /\ snapshotErrorLogs = 0
    /\ unhandledRejections = 0

----------------------------------------------------------------------------
(* lambda.ts *)

\* a catch block that logs and throws again
RethrowInHandler ==
    /\ errorLogs' = errorLogs + 1
    /\ handlerResult' = "rejected"

\* the catch block of housekeeperAmi: one logger.error, then the handler returns
CatchInHandler ==
    /\ errorLogs' = errorLogs + 1
    /\ handlerResult' = "resolved"

\* a failed listing call taken for an empty answer: the run goes on
ContinueAfterFailedListing ==
    IF pc \in {"DescribeParameters", "DescribeLaunchTemplates"}
        THEN /\ pc' = IF pc = "DescribeParameters" THEN "DescribeLaunchTemplates"
                                                   ELSE "DescribeImages"
             /\ UNCHANGED <<cleanupResult, errorLogs, handlerResult>>
        ELSE /\ pc' = "done"
             /\ cleanupResult' = "rejected"
             /\ IF entry = "housekeeperAmi"
                   THEN CatchInHandler
                   ELSE UNCHANGED <<errorLogs, handlerResult>>

\* amiCleanup rejects: the handler's catch runs, or the direct caller sees it
RejectCleanup ==
    /\ pc' = "done"
    /\ cleanupResult' = "rejected"
    /\ IF entry = "housekeeperAmi"
          THEN CatchInHandler
          ELSE UNCHANGED <<errorLogs, handlerResult>>

\* amiCleanup resolves: the handler returns
ResolveCleanup ==
    /\ pc' = "done"
    /\ cleanupResult' = "resolved"
    /\ handlerResult' = IF entry = "housekeeperAmi" THEN "resolved" ELSE handlerResult
    /\ UNCHANGED errorLogs

\* housekeeperAmi up to its first await: JSON.parse, then the call of amiCleanup,
\* which merges the options and sends DescribeParameters (getAmisReferedInSSM)
Start ==
    /\ pc = "start"
    /\ IF config.kind # "object"
          THEN /\ pc' = "done"
               /\ CatchInHandler
               /\ UNCHANGED <<mergedOptions, trace, cleanupResult>>
          ELSE /\ mergedOptions' = Merge(defaultAmiCleanupOptions, config.value)
               /\ trace' = Append(trace, Send("DescribeParameters", 0))
               /\ pc' = "DescribeParameters"
               /\ cleanupResult' = "pending"
               /\ UNCHANGED <<errorLogs, handlerResult>>
    /\ UNCHANGED <<entry, config, parameters, launchTemplates,
                   images, now, amiIdsInSSM, amiIdsInTemplates,
                   amiEc2, amisNotInUse, idx, pendingDeregisters, pendingSnapshots,
                   deletedSnapshots, snapshotErrorLogs, unhandledRejections>>

----------------------------------------------------------------------------
(* ami.ts: collecting the references *)

AllSettled(results) == \A k \in DOMAIN results : results[k] # Pending

\* getAmisReferedInSSM: DescribeParameters completes; one GetParameter is sent
\* for each parameter found.  With none, getAmiInLatestTemplates starts.
DescribeParametersDone ==
    /\ pc = "DescribeParameters"
    /\ \E ok \in BOOLEAN :
        IF ~ok
          THEN /\ trace' = Append(trace, Done("DescribeParameters", 0, FALSE))
               /\ RejectCleanup
               /\ UNCHANGED amiIdsInSSM
          ELSE /\ LET n == Len(parameters) IN
                    /\ amiIdsInSSM' = [k \in 1..n |-> Pending]
                    /\ trace' = Append(trace, Done("DescribeParameters", 0, TRUE))
                                  \o (IF n = 0 THEN <<Send("DescribeLaunchTemplates", 0)>>
                                               ELSE SendAll("GetParameter", n))
                    /\ pc' = IF n = 0 THEN "DescribeLaunchTemplates" ELSE "GetParameter"
               /\ UNCHANGED <<cleanupResult, handlerResult, errorLogs>>
    /\ UNCHANGED <<entry, config, parameters, launchTemplates,
                   images, now, mergedOptions, amiIdsInTemplates,
                   amiEc2, amisNotInUse, idx, pendingDeregisters, pendingSnapshots,
                   deletedSnapshots, snapshotErrorLogs, unhandledRejections>>

\* one GetParameter completes; Promise.all rejects with the first failure and
\* resolves with the last value (paramValue.Parameter?.Value)
GetParameterDone(k) ==
    /\ pc = "GetParameter"
    /\ k \in DOMAIN amiIdsInSSM
    /\ amiIdsInSSM[k] = Pending
    /\ \E ok \in BOOLEAN :
        IF ~ok
          THEN /\ trace' = Append(trace, Done("GetParameter", k, FALSE))
               /\ RejectCleanup
               /\ UNCHANGED amiIdsInSSM
          ELSE /\ amiIdsInSSM' = [amiIdsInSSM EXCEPT ![k] = parameters[k]]
               /\ IF AllSettled(amiIdsInSSM')
                    THEN /\ trace' = trace \o <<Done("GetParameter", k, TRUE),
                                                Send("DescribeLaunchTemplates", 0)>>
                         /\ pc' = "DescribeLaunchTemplates"
                    ELSE /\ trace' = Append(trace, Done("GetParameter", k, TRUE))
                         /\ pc' = pc
               /\ UNCHANGED <<cleanupResult, handlerResult, errorLogs>>
    /\ UNCHANGED <<entry, config, parameters, launchTemplates,
                   images, now, mergedOptions, amiIdsInTemplates,
                   amiEc2, amisNotInUse, idx, pendingDeregisters, pendingSnapshots,
                   deletedSnapshots, snapshotErrorLogs, unhandledRejections>>

\* getAmiInLatestTemplates: DescribeLaunchTemplates completes; one
\* DescribeLaunchTemplateVersions is sent for each template.  With none,
\* getAmisNotInUse sends DescribeImages.
DescribeLaunchTemplatesDone ==
    /\ pc = "DescribeLaunchTemplates"
    /\ \E ok \in BOOLEAN :
        IF ~ok
          THEN /\ trace' = Append(trace, Done("DescribeLaunchTemplates", 0, FALSE))
               /\ RejectCleanup
               /\ UNCHANGED amiIdsInTemplates
          ELSE /\ LET n == Len(launchTemplates) IN
                    /\ amiIdsInTemplates' = [k \in 1..n |-> Pending]
                    /\ trace' = Append(trace, Done("DescribeLaunchTemplates", 0, TRUE))
                                  \o (IF n = 0 THEN <<Send("DescribeImages", 0)>>
                                               ELSE SendAll("DescribeLaunchTemplateVersions", n))
                    /\ pc' = IF n = 0 THEN "DescribeImages"
                                      ELSE "DescribeLaunchTemplateVersions"
               /\ UNCHANGED <<cleanupResult, handlerResult, errorLogs>>
    /\ UNCHANGED <<entry, config, parameters, launchTemplates,
                   images, now, mergedOptions, amiIdsInSSM,
                   amiEc2, amisNotInUse, idx, pendingDeregisters, pendingSnapshots,
                   deletedSnapshots, snapshotErrorLogs, unhandledRejections>>

\* one DescribeLaunchTemplateVersions completes, with the image id of the
\* default version (LaunchTemplateData?.ImageId)
DescribeLaunchTemplateVersionsDone(k) ==
    /\ pc = "DescribeLaunchTemplateVersions"
    /\ k \in DOMAIN amiIdsInTemplates
    /\ amiIdsInTemplates[k] = Pending
    /\ \E ok \in BOOLEAN :
        IF ~ok
          THEN /\ trace' = Append(trace, Done("DescribeLaunchTemplateVersions", k, FALSE))
               /\ RejectCleanup
               /\ UNCHANGED amiIdsInTemplates
          ELSE /\ amiIdsInTemplates' = [amiIdsInTemplates EXCEPT ![k] = launchTemplates[k]]
               /\ IF AllSettled(amiIdsInTemplates')
                    THEN /\ trace' = trace \o <<Done("DescribeLaunchTemplateVersions", k, TRUE),
                                                Send("DescribeImages", 0)>>
                         /\ pc' = "DescribeImages"
                    ELSE /\ trace' = Append(trace, Done("DescribeLaunchTemplateVersions", k, TRUE))
                         /\ pc' = pc
               /\ UNCHANGED <<cleanupResult, handlerResult, errorLogs>>
    /\ UNCHANGED <<entry, config, parameters, launchTemplates,
                   images, now, mergedOptions, amiIdsInSSM,
                   amiEc2, amisNotInUse, idx, pendingDeregisters, pendingSnapshots,
                   deletedSnapshots, snapshotErrorLogs, unhandledRejections>>

----------------------------------------------------------------------------
(* ami.ts: the unused images *)

\* MaxResults, had it fallen back to a page of one image
MaxResultsOrOne(options) == IF Truthy(options.maxItems) THEN options.maxItems ELSE Num(1)

\* MaxResults: options.maxItems ? options.maxItems : undefined
MaxResults(options) == IF Truthy(options.maxItems) THEN options.maxItems ELSE Undefined

\* getAmisNotInUse once DescribeImages completes: sort, filter, return
DescribeImagesDone ==
    /\ pc = "DescribeImages"
    /\ \E ok \in BOOLEAN :
        IF ~ok
          THEN /\ trace' = Append(trace, Done("DescribeImages", 0, FALSE))
               /\ RejectCleanup
               /\ UNCHANGED <<amiEc2, amisNotInUse, idx>>
          ELSE /\ amiEc2' = Sort(DescribeImages(images, MaxResults(mergedOptions)))
               /\ amisNotInUse' = Filter(amiEc2', amiIdsInSSM, amiIdsInTemplates)
               /\ idx' = 0
               /\ trace' = Append(trace, Done("DescribeImages", 0, TRUE))
               /\ pc' = "loop"
               /\ UNCHANGED <<cleanupResult, handlerResult, errorLogs>>
    /\ UNCHANGED <<entry, config, parameters, launchTemplates,
                   images, now, mergedOptions, amiIdsInSSM,
                   amiIdsInTemplates, pendingDeregisters, pendingSnapshots,
                   deletedSnapshots, snapshotErrorLogs, unhandledRejections>>

----------------------------------------------------------------------------
(* ami.ts: deleting *)

\* the decision, had it no check for a missing creation date
DeleteAmiDecisionNoDateCheck(amiDetails, today, minimumDaysOld) ==
    IF After(amiDetails.CreationDate, MinimumDaysOldDate(today, minimumDaysOld))
        THEN "not older"
        ELSE "deregister"

\* the decision, had it compared with >= (an image must be older than the threshold)
DeleteAmiDecisionStrict(amiDetails, today, minimumDaysOld) ==
    IF amiDetails.CreationDate.t # "number"
        THEN "no creation date"
        ELSE IF AtOrAfter(amiDetails.CreationDate, MinimumDaysOldDate(today, minimumDaysOld))
            THEN "not older"
            ELSE "deregister"

\* deleteAmi before its try block: what is decided for an image
DeleteAmiDecision(amiDetails, today, minimumDaysOld) ==
    IF amiDetails.CreationDate.t # "number"
        THEN "no creation date"
        ELSE IF After(amiDetails.CreationDate, MinimumDaysOldDate(today, minimumDaysOld))
            THEN "not older"
            ELSE "deregister"

\* deleteAmi called without await: the loop goes on at once
DoNotAwaitDeleteAmi == "loop"

\* amiCleanup awaits deleteAmi, which awaits the DeregisterImage it sent
AwaitDeleteAmi == "DeregisterImage"

\* deleteAmi without its try/catch
DeleteAmiSettlesUncaught(ok) == IF ok THEN "resolved" ELSE "rejected"

\* the try/catch of deleteAmi: how its promise settles for a DeregisterImage outcome
DeleteAmiSettles(ok) == "resolved"

\* deleteSnapshot, had it been called after the catch block as well
SnapshotRequestsAlways(amiDetails, ok) ==
    SelectSeq([k \in DOMAIN amiDetails.BlockDeviceMappings |-> k],
              LAMBDA k : amiDetails.BlockDeviceMappings[k])

\* deleteSnapshot, had its callback no test of snapshotId
SnapshotRequestsUnchecked(amiDetails, ok) ==
    IF ok
        THEN [k \in DOMAIN amiDetails.BlockDeviceMappings |-> k]
        ELSE << >>

\* deleteSnapshot: the mappings whose callback sends a DeleteSnapshot; it is
\* only called when DeregisterImage succeeded
SnapshotRequests(amiDetails, ok) ==
    IF ok
        THEN SelectSeq([k \in DOMAIN amiDetails.BlockDeviceMappings |-> k],
                       LAMBDA k : amiDetails.BlockDeviceMappings[k])
        ELSE << >>

\* deleteSnapshot, had it awaited its callbacks (await Promise.all(...))
DeleteSnapshotAwaited(devices) == IF devices = << >> THEN "loop" ELSE "DeleteSnapshot"

\* deleteSnapshot returns once map has started the callbacks, whose promises
\* are dropped: deleteAmi returns and the loop of amiCleanup goes on
DeleteSnapshotReturns(devices) == "loop"

\* the callback of deleteSnapshot without its try/catch
DeleteSnapshotSettlesUncaught(ok) == IF ok THEN "resolved" ELSE "rejected"

\* the try/catch in the callback of deleteSnapshot: how the callback's promise settles
DeleteSnapshotSettles(ok) == "resolved"

ImageById(id) == CHOOSE image \in {amisNotInUse[i] : i \in DOMAIN amisNotInUse} :
                    image.ImageId = id

\* the for-loop, had it been left after the first image
LoopNextOnlyFirst ==
    /\ pc = "loop"
    /\ idx' = idx + 1
    /\ IF idx' > Len(amisNotInUse) \/ idx' > 1
          THEN ResolveCleanup
          ELSE /\ pc' = "delay"
               /\ UNCHANGED <<cleanupResult, handlerResult, errorLogs>>
    /\ UNCHANGED <<entry, config, parameters, launchTemplates,
                   images, now, mergedOptions, amiIdsInSSM,
                   amiIdsInTemplates, amiEc2, amisNotInUse, pendingDeregisters,
                   pendingSnapshots, deletedSnapshots, trace, snapshotErrorLogs,
                   unhandledRejections>>

\* the for-loop of amiCleanup takes the next image and starts the pacing delay,
\* or ends: amiCleanup resolves
LoopNext ==
    /\ pc = "loop"
    /\ idx' = idx + 1
    /\ IF idx' > Len(amisNotInUse)
          THEN ResolveCleanup
          ELSE /\ pc' = "delay"
               /\ UNCHANGED <<cleanupResult, handlerResult, errorLogs>>
    /\ UNCHANGED <<entry, config, parameters, launchTemplates,
                   images, now, mergedOptions, amiIdsInSSM,
                   amiIdsInTemplates, amiEc2, amisNotInUse, pendingDeregisters,
                   pendingSnapshots, deletedSnapshots, trace, snapshotErrorLogs,
                   unhandledRejections>>

\* the 100 ms timer fires and deleteAmi runs up to its first await: the image is
\* skipped, or its DeregisterImage is sent
TimerFires ==
    /\ pc = "delay"
    /\ LET image == amisNotInUse[idx]
           decision == DeleteAmiDecision(image, now, mergedOptions.minimumDaysOld)
           call == Event("call", "deleteAmi", image.ImageId, 0, now)
       IN IF decision = "deregister"
            THEN /\ trace' = trace \o <<call, Event("send", "DeregisterImage",
                                                    image.ImageId, 0, now)>>
                 /\ pendingDeregisters' = pendingDeregisters \cup {image.ImageId}
                 /\ pc' = AwaitDeleteAmi
            ELSE /\ trace' = Append(trace, call)
                 /\ pc' = "loop"
                 /\ UNCHANGED pendingDeregisters
    /\ UNCHANGED <<entry, config, parameters, launchTemplates,
                   images, now, mergedOptions, amiIdsInSSM,
                   amiIdsInTemplates, amiEc2, amisNotInUse, idx, pendingSnapshots,
                   deletedSnapshots, cleanupResult, handlerResult, errorLogs,
                   snapshotErrorLogs, unhandledRejections>>

\* a DeregisterImage completes.  On success the image leaves the account and
\* deleteSnapshot sends its DeleteSnapshot requests without awaiting them; on
\* failure the catch of deleteAmi logs a warning.  deleteAmi then returns.
DeregisterImageDone(id) ==
    /\ id \in pendingDeregisters
    /\ pendingDeregisters' = pendingDeregisters \ {id}
    /\ \E ok \in BOOLEAN :
        LET image == ImageById(id)
            devices == SnapshotRequests(image, ok)
        IN /\ trace' = Append(trace, Event(IF ok THEN "ok" ELSE "fail",
                                           "DeregisterImage", id, 0, now))
                        \o [i \in DOMAIN devices |->
                                Event("send", "DeleteSnapshot", id, devices[i], now)]
           /\ pendingSnapshots' = pendingSnapshots
                                    \cup {<<id, devices[i]>> : i \in DOMAIN devices}
           /\ images' = IF ok THEN SelectSeq(images, LAMBDA other : other.ImageId # id)
                              ELSE images
           /\ IF DeleteAmiSettles(ok) = "resolved"
                THEN /\ pc' = IF pc = "DeregisterImage" THEN DeleteSnapshotReturns(devices)
                                                         ELSE pc
                     /\ UNCHANGED <<cleanupResult, handlerResult, errorLogs,
                                    unhandledRejections>>
                ELSE IF pc = "DeregisterImage"
                    THEN /\ RejectCleanup
                         /\ UNCHANGED unhandledRejections
                    ELSE /\ unhandledRejections' = unhandledRejections + 1
                         /\ UNCHANGED <<pc, cleanupResult, handlerResult, errorLogs>>
    /\ UNCHANGED <<entry, config, parameters, launchTemplates,
                   now, mergedOptions, amiIdsInSSM,
                   amiIdsInTemplates, amiEc2, amisNotInUse, idx, deletedSnapshots,
                   snapshotErrorLogs>>

\* a DeleteSnapshot completes; a failure is logged by the callback's catch
DeleteSnapshotDone(id, dev) ==
    /\ <<id, dev>> \in pendingSnapshots
    /\ pendingSnapshots' = pendingSnapshots \ {<<id, dev>>}
    /\ \E ok \in BOOLEAN :
        /\ deletedSnapshots' = IF ok THEN deletedSnapshots \cup {<<id, dev>>}
                                     ELSE deletedSnapshots
        /\ IF DeleteSnapshotSettles(ok) = "resolved"
             THEN /\ snapshotErrorLogs' = snapshotErrorLogs + (IF ok THEN 0 ELSE 1)
                  /\ UNCHANGED unhandledRejections
             ELSE /\ unhandledRejections' = unhandledRejections + 1
                  /\ UNCHANGED snapshotErrorLogs
    /\ pc' = IF pc = "DeleteSnapshot" /\ pendingSnapshots' = {} THEN "loop" ELSE pc
    /\ UNCHANGED <<entry, config, parameters, launchTemplates,
                   images, now, mergedOptions, amiIdsInSSM,
                   amiIdsInTemplates, amiEc2, amisNotInUse, idx, pendingDeregisters, trace,
                   cleanupResult, handlerResult, errorLogs>>

----------------------------------------------------------------------------

Next ==
    \/ Start
    \/ DescribeParametersDone
    \/ \E k \in 1..MaxParams : GetParameterDone(k)
    \/ DescribeLaunchTemplatesDone
    \/ \E k \in 1..MaxTemplates : DescribeLaunchTemplateVersionsDone(k)
    \/ DescribeImagesDone
    \/ LoopNext
    \/ TimerFires
    \/ \E id \in ImageIds : DeregisterImageDone(id)
    \/ \E id \in ImageIds, dev \in DeviceIndexes : DeleteSnapshotDone(id, dev)

Spec == Init /\ [][Next]_vars

\* Every request sent completes, with success or failure, and the timer of
\* the pacing delay fires: a step that can be taken is eventually taken.
FairSpec == Spec /\ WF_vars(Next)

----------------------------------------------------------------------------
(* Two runs in succession *)

\* the entry of the trace that marks the start of the second run
SecondRun == Event("call", "amiCleanup", "", 0, now)

\* the run is over and the scheduler invokes the handler again (or the caller
\* calls amiCleanup again) with the same options, against the account, the
\* parameters and the launch templates as the first run left them
RunAgain ==
    /\ pc = "done"
    /\ cleanupResult # "none"
    /\ ~Includes(trace, SecondRun)
    /\ mergedOptions' = Merge(defaultAmiCleanupOptions, config.value)
    /\ amiIdsInSSM' = << >>
    /\ amiIdsInTemplates' = << >>
    /\ amiEc2' = << >>
    /\ amisNotInUse' = << >>
    /\ idx' = 0
    /\ trace' = trace \o <<SecondRun, Send("DescribeParameters", 0)>>
    /\ pc' = "DescribeParameters"
    /\ cleanupResult' = "pending"
    /\ handlerResult' = IF entry = "housekeeperAmi" THEN "pending" ELSE handlerResult
    /\ UNCHANGED <<entry, config, parameters, launchTemplates, images, now,
                   pendingDeregisters, pendingSnapshots, deletedSnapshots, errorLogs,
                   snapshotErrorLogs, unhandledRejections>>

\* the number of images of the account before the first of two runs
MaxImagesTwice == 2

\* two runs are followed for the options the code reads, given as an object
InitTwice ==
    /\ Init
    /\ Len(images) <= MaxImagesTwice
    /\ config.kind = "object"
    /\ "dryRun" \notin DOMAIN config.value

NextTwice == Next \/ RunAgain

SpecTwice == InitTwice /\ [][NextTwice]_vars

----------------------------------------------------------------------------
(* Reading the trace *)

Mutating == {"DeregisterImage", "DeleteSnapshot"}

\* the positions of the trace where a request cmd for image id was sent
Sends(cmd, id) ==
    {i \in DOMAIN trace :
        trace[i].type = "send" /\ trace[i].cmd = cmd /\ trace[i].ImageId = id}

\* the positions where a request cmd for image id completed with outcome type
Completions(type, cmd, id) ==
    {i \in DOMAIN trace :
        trace[i].type = type /\ trace[i].cmd = cmd /\ trace[i].ImageId = id}

\* deleteAmi was called for image id
Evaluated(id) == Completions("call", "deleteAmi", id) # {}

\* some mutating request was sent for image id
Touched(id) == \E cmd \in Mutating : Sends(cmd, id) # {}

InParameters(id) == \E k \in DOMAIN amiIdsInSSM : amiIdsInSSM[k] = Str(id)
InTemplates(id) == \E k \in DOMAIN amiIdsInTemplates : amiIdsInTemplates[k] = Str(id)

Resolved == pc = "done" /\ cleanupResult = "resolved"

HasDate(image) == image.CreationDate.t = "number"
Age(image) == now - image.CreationDate.v

\* the threshold in force, when it is a number
HasThreshold ==
    /\ "minimumDaysOld" \in DOMAIN mergedOptions
    /\ mergedOptions.minimumDaysOld.t = "number"
Threshold == mergedOptions.minimumDaysOld.v

Listed == {amiEc2[i] : i \in DOMAIN amiEc2}
Candidates == {amisNotInUse[i] : i \in DOMAIN amisNotInUse}

Unreferenced(image) == ~InParameters(image.ImageId) /\ ~InTemplates(image.ImageId)

Deregistered(id) == Completions("ok", "DeregisterImage", id) # {}
DeregisterFailed(id) == Completions("fail", "DeregisterImage", id) # {}

\* the mappings of an image that carry a snapshot id
SnapshotDevices(image) ==
    {dev \in DOMAIN image.BlockDeviceMappings : image.BlockDeviceMappings[dev]}

\* the snapshots a DeleteSnapshot was sent for, and those whose request failed
SentSnapshots ==
    {<<trace[i].ImageId, trace[i].DeviceIndex>> :
        i \in {j \in DOMAIN trace : trace[j].type = "send" /\ trace[j].cmd = "DeleteSnapshot"}}
FailedSnapshots == (SentSnapshots \ pendingSnapshots) \ deletedSnapshots

----------------------------------------------------------------------------
(* Claims *)

\* C1: no DeregisterImage and no DeleteSnapshot request is ever sent for an
\* image whose id is the resolved value of a matching SSM parameter or the
\* image id of the default version of an inspected launch template.
C1_ReferencedNeverTouched ==
    \A id \in ImageIds : (InParameters(id) \/ InTemplates(id)) => ~Touched(id)

\* C1 witness: a run resolved in which the whole inventory was listed, an
\* image old enough to go is referenced by a parameter, another one by a
\* template, and a third image was deregistered.
C1_Witness ==
    /\ Resolved
    /\ mergedOptions.maxItems = Undefined
    /\ \E a, b, c \in {amiEc2[i] : i \in DOMAIN amiEc2} :
        /\ InParameters(a.ImageId) /\ ~InTemplates(a.ImageId)
        /\ InTemplates(b.ImageId) /\ ~InParameters(b.ImageId)
        /\ HasDate(a) /\ HasDate(b) /\ HasThreshold
        /\ Age(a) >= Threshold /\ Age(b) >= Threshold
        /\ Sends("DeregisterImage", c.ImageId) # {}

\* C2: no DeregisterImage and no DeleteSnapshot request is ever sent for an
\* image without a creation date, or whose age is below the minimumDaysOld in
\* force; deleteAmi skips such an image and nothing is raised.
C2_UnknownOrYoungNeverTouched ==
    \A image \in Catalogue :
        (~HasDate(image) \/ (HasThreshold /\ Age(image) < Threshold)) =>
            /\ ~Touched(image.ImageId)
            /\ Evaluated(image.ImageId) =>
                    cleanupResult # "rejected" /\ unhandledRejections = 0

\* C2 witness: a resolved run that evaluated an image without a creation date
\* and an image younger than the threshold, and deregistered a third one.
C2_Witness ==
    /\ Resolved
    /\ HasThreshold
    /\ \E a, b, c \in Catalogue :
        /\ ~HasDate(a) /\ Evaluated(a.ImageId)
        /\ HasDate(b) /\ Age(b) < Threshold /\ Evaluated(b.ImageId)
        /\ Sends("DeregisterImage", c.ImageId) # {}

C4_SnapshotsOnlyAfterDeregistration ==
    \A id \in ImageIds :
        /\ \A i \in Sends("DeleteSnapshot", id) :
                \E j \in Completions("ok", "DeregisterImage", id) : j < i
        /\ DeregisterFailed(id) => Sends("DeleteSnapshot", id) = {}

\* C4 witness: a finished run in which an image with snapshots failed to
\* deregister and the snapshot of another image was requested.
C4_Witness ==
    /\ Resolved
    /\ \E a, b \in Catalogue :
        /\ DeregisterFailed(a.ImageId) /\ SnapshotDevices(a) # {}
        /\ Deregistered(b.ImageId) /\ Sends("DeleteSnapshot", b.ImageId) # {}

\* what deleteAmi owes a candidate: the evaluation, the DeregisterImage when it
\* has a date and is old enough, its DeleteSnapshots when that succeeded
FullyProcessed(image) ==
    /\ Evaluated(image.ImageId)
    /\ (HasDate(image) /\ (HasThreshold => Age(image) >= Threshold))
            => Sends("DeregisterImage", image.ImageId) # {}
    /\ Deregistered(image.ImageId) =>
            \A dev \in SnapshotDevices(image) : <<image.ImageId, dev>> \in SentSnapshots

\* C5: when DeregisterImage fails for a candidate A the loop goes on: amiCleanup
\* does not reject, and once it is over every other candidate has been
\* evaluated, deregistered when old enough, and has had its snapshots requested.
C5_DeregisterFailureIsolated ==
    \A a \in Candidates :
        DeregisterFailed(a.ImageId) =>
            /\ cleanupResult # "rejected"
            /\ unhandledRejections = 0
            /\ pc = "done" => \A b \in Candidates \ {a} : FullyProcessed(b)

\* C5 witness: a resolved run with a failed deregistration between two
\* successful ones.
C5_Witness ==
    /\ Resolved
    /\ \E a, b, c \in Candidates :
        \E i \in Completions("ok", "DeregisterImage", b.ImageId),
           j \in Completions("fail", "DeregisterImage", a.ImageId),
           k \in Completions("ok", "DeregisterImage", c.ImageId) : i < j /\ j < k

\* C6: when a DeleteSnapshot fails for a snapshot of image A, every snapshot of
\* A has been sent its own DeleteSnapshot, nothing is raised (amiCleanup does
\* not reject and no rejected promise is left unhandled), and once the run is
\* over every candidate has been processed.
C6_SnapshotFailureIsolated ==
    \A a \in Catalogue :
        (\E dev \in DeviceIndexes : <<a.ImageId, dev>> \in FailedSnapshots) =>
            /\ \A dev \in SnapshotDevices(a) : <<a.ImageId, dev>> \in SentSnapshots
            /\ cleanupResult # "rejected"
            /\ unhandledRejections = 0
            /\ pc = "done" => \A b \in Candidates : FullyProcessed(b)

\* C6 witness: a resolved run in which one snapshot of an image failed to
\* delete, its other snapshot was deleted, and a later candidate was
\* deregistered.
C6_Witness ==
    /\ Resolved
    /\ \E a \in Candidates, b \in Candidates :
        /\ \E d1, d2 \in SnapshotDevices(a) :
            /\ <<a.ImageId, d1>> \in FailedSnapshots
            /\ <<a.ImageId, d2>> \in deletedSnapshots
        /\ \E i \in Completions("ok", "DeregisterImage", a.ImageId),
              j \in Completions("ok", "DeregisterImage", b.ImageId) : i < j

DryRun ==
    /\ config.kind = "object"
    /\ "dryRun" \in DOMAIN config.value
    /\ config.value.dryRun = True

\* C7: when dryRun is true in the cleanup configuration, no DeregisterImage and
\* no DeleteSnapshot request is sent.
C7_DryRunSendsNothing ==
    DryRun => \A i \in DOMAIN trace : trace[i].type = "send" => trace[i].cmd \notin Mutating

\* C8: the candidates handed to deleteAmi are in ascending order of creation
\* date: of two candidates that have a creation date, the older one comes
\* first and is sent its DeregisterImage first, also when images without a
\* creation date stand between them.
C8_CandidatesSortedByDate ==
    /\ \A i, j \in DOMAIN amisNotInUse :
        (i < j /\ HasDate(amisNotInUse[i]) /\ HasDate(amisNotInUse[j])) =>
            amisNotInUse[i].CreationDate.v <= amisNotInUse[j].CreationDate.v
    /\ \A a, b \in Candidates :
        \A i \in Sends("DeregisterImage", a.ImageId), j \in Sends("DeregisterImage", b.ImageId) :
            i < j => a.CreationDate.v <= b.CreationDate.v

\* the position of a candidate in amisNotInUse
CandidateIndex(id) == CHOOSE i \in DOMAIN amisNotInUse : amisNotInUse[i].ImageId = id

\* C9: image deletions are sequential: at most one DeregisterImage is in
\* flight, a DeregisterImage is sent only after the one sent before it has
\* completed (successfully or not), and they are sent in the order of the
\* candidate sequence.
C9_DeregistrationsSequential ==
    /\ Cardinality(pendingDeregisters) <= 1
    /\ \A a, b \in ImageIds :
        \A i \in Sends("DeregisterImage", a), j \in Sends("DeregisterImage", b) :
            i < j =>
                /\ \E k \in Completions("ok", "DeregisterImage", a)
                            \cup Completions("fail", "DeregisterImage", a) : i < k /\ k < j
                /\ CandidateIndex(a) < CandidateIndex(b)

\* C9 witness: two deregistrations completed, one of them failed, and a third
\* one is in flight.
C9_Witness ==
    /\ Cardinality(pendingDeregisters) = 1
    /\ \E a, b \in ImageIds : Deregistered(a) /\ DeregisterFailed(b)

\* the run failed: the options could not be parsed, or amiCleanup rejected
RunFailed ==
    \/ pc # "start" /\ config.kind # "object"
    \/ cleanupResult = "rejected"

\* C10: housekeeperAmi never rejects: when the run fails (AMI_CLEANUP_OPTIONS
\* missing or malformed, amiCleanup rejected by a failed call) the error is
\* logged once at error level and the handler resolves.
C10_HandlerNeverRejects ==
    entry = "housekeeperAmi" =>
        /\ handlerResult # "rejected"
        /\ RunFailed => handlerResult = "resolved" /\ errorLogs = 1
        /\ ~RunFailed => errorLogs = 0

\* C10 witness: the inventory call failed after the references were collected
\* from a parameter and a template, and the handler has resolved.
C10_Witness ==
    /\ entry = "housekeeperAmi"
    /\ Completions("fail", "DescribeImages", "") # {}
    /\ amiIdsInSSM # << >> /\ amiIdsInTemplates # << >>
    /\ cleanupResult = "rejected"
    /\ handlerResult = "resolved"
    /\ errorLogs = 1

----------------------------------------------------------------------------
(* Claims: failures of the collectors, options, repeated runs, snapshots *)

\* one of the listing calls failed: DescribeParameters, DescribeLaunchTemplates
\* or the inventory call DescribeImages
ListingFailed ==
    \E cmd \in {"DescribeParameters", "DescribeLaunchTemplates", "DescribeImages"} :
        Completions("fail", cmd, "") # {}

NoMutatingRequest ==
    \A i \in DOMAIN trace : trace[i].type = "send" => trace[i].cmd \notin Mutating

\* C11: when DescribeParameters, DescribeLaunchTemplates or DescribeImages
\* fails, amiCleanup rejects and the run is over before any mutating call: no
\* DeregisterImage and no DeleteSnapshot request is sent in that run.
C11_ListingFailureAbortsRun ==
    ListingFailed =>
        /\ pc = "done"
        /\ cleanupResult = "rejected"
        /\ NoMutatingRequest
        /\ pendingDeregisters = {} /\ pendingSnapshots = {}

\* C11 witness: the account holds an unreferenced image old enough to go, the
\* parameters were resolved, and the listing of the launch templates failed.
C11_Witness ==
    /\ Completions("fail", "DescribeLaunchTemplates", "") # {}
    /\ amiIdsInSSM # << >> /\ AllSettled(amiIdsInSSM)
    /\ HasThreshold
    /\ \E i \in DOMAIN images :
        /\ HasDate(images[i]) /\ Age(images[i]) >= Threshold
        /\ Unreferenced(images[i])
        /\ ~Includes(launchTemplates, Str(images[i].ImageId))
    /\ cleanupResult = "rejected"

\* C12: when DescribeLaunchTemplateVersions fails for one launch template the
\* collection of the references is not aborted: the run goes on (amiCleanup
\* does not reject because of it) and that template contributes no reference.
C12_TemplateVersionFailureTolerated ==
    (Completions("fail", "DescribeLaunchTemplateVersions", "") # {} /\ ~ListingFailed) =>
        cleanupResult # "rejected"

\* C13: a parameter whose value does not resolve (GetParameter fails, or
\* returns no value) is not fatal: it contributes no reference and the run
\* goes on to resolution and deletion (amiCleanup does not reject because of it).
C13_UnresolvedParameterTolerated ==
    /\ (\E k \in DOMAIN amiIdsInSSM : amiIdsInSSM[k] = Undefined) =>
            \A id \in ImageIds : InParameters(id) => Includes(parameters, Str(id))
    /\ ( /\ \/ Completions("fail", "GetParameter", "") # {}
             \/ \E k \in DOMAIN amiIdsInSSM : amiIdsInSSM[k] = Undefined
          /\ ~ListingFailed
          /\ Completions("fail", "DescribeLaunchTemplateVersions", "") = {} ) =>
            cleanupResult # "rejected"

\* the caller passed minimumDaysOld as undefined
MinimumDaysOldUndefined ==
    /\ config.kind = "object"
    /\ "minimumDaysOld" \in DOMAIN config.value
    /\ config.value.minimumDaysOld = Undefined

\* C14: an option supplied as undefined takes its default:
\* amiCleanup({minimumDaysOld: undefined}) runs with the threshold of 30 days,
\* so no image younger than 30 days is sent a DeregisterImage.
C14_UndefinedMeansDefault ==
    MinimumDaysOldUndefined =>
        \A image \in Catalogue :
            (HasDate(image) /\ Age(image) < DefaultMinimumDaysOld) =>
                Sends("DeregisterImage", image.ImageId) = {}

\* the DeregisterImage requests of the run
DeregisterRequests ==
    {i \in DOMAIN trace : trace[i].type = "send" /\ trace[i].cmd = "DeregisterImage"}

\* C15: for every integer N >= 0 given as maxItems the inventory call returns
\* at most N images, and the run sends at most N DeregisterImage requests.
C15_AtMostMaxItemsDeregistered ==
    (pc # "start" /\ config.kind = "object"
        /\ "maxItems" \in DOMAIN config.value /\ config.value.maxItems.t = "number") =>
            /\ Len(amiEc2) <= config.value.maxItems.v
            /\ Cardinality(DeregisterRequests) <= config.value.maxItems.v

\* the entries of the trace that belong to the first and to the second run
SecondRunAt ==
    IF Includes(trace, SecondRun)
        THEN CHOOSE j \in DOMAIN trace : trace[j] = SecondRun
        ELSE Len(trace) + 1
FirstRun == 1..(SecondRunAt - 1)
InSecondRun == (SecondRunAt + 1)..Len(trace)

\* the mutating requests of the second run
SecondRunRequests ==
    {i \in InSecondRun : trace[i].type = "send" /\ trace[i].cmd \in Mutating}

\* the options cap the inventory call (0 is no cap: see MaxResults)
MaxItemsSet ==
    /\ config.kind = "object"
    /\ "maxItems" \in DOMAIN config.value
    /\ Truthy(config.value.maxItems)

\* no call the first run awaited has failed
FirstRunClean == \A i \in FirstRun : trace[i].type # "fail"

\* C16 as stated, for a first run in which no awaited call failed: a second
\* run of amiCleanup with the same options, right after the first and with no
\* change by anyone else, sends no DeregisterImage and no DeleteSnapshot.
C16_SecondRunSendsNothing ==
    FirstRunClean => SecondRunRequests = {}

\* C16 amended: when the first run listed the whole inventory (maxItems unset,
\* or 0) and no call it awaited failed, a second run with the same options at
\* the same date sends no DeregisterImage and no DeleteSnapshot.
C16_SecondRunSendsNothingWhenAllListed ==
    (FirstRunClean /\ ~MaxItemsSet) => SecondRunRequests = {}

\* C16 witness: the first run deregistered an image; the second run listed
\* the images left, called deleteAmi for one of them and resolved.
C16_Witness ==
    /\ Resolved
    /\ FirstRunClean /\ ~MaxItemsSet
    /\ \E i \in FirstRun : trace[i].type = "ok" /\ trace[i].cmd = "DeregisterImage"
    /\ \E i \in InSecondRun : trace[i].type = "call" /\ trace[i].cmd = "deleteAmi"

\* no parameter name is configured: ssmParameterNames is unset or empty
NoParameterNames ==
    /\ config.kind = "object"
    /\ "ssmParameterNames" \in DOMAIN config.value =>
            config.value.ssmParameterNames = EmptyList

\* C17: when ssmParameterNames is unset or empty the parameter source sends
\* no request at all (no DescribeParameters, no GetParameter) and contributes
\* no reference.
C17_NoNamesNoRegistryCall ==
    NoParameterNames =>
        /\ \A i \in DOMAIN trace :
                trace[i].type = "send" =>
                    trace[i].cmd \notin {"DescribeParameters", "GetParameter"}
        /\ amiIdsInSSM = << >>

\* C18: the DeleteSnapshot requests of an image are not awaited.  The step in
\* which a DeregisterImage completes returns control to the loop of amiCleanup
\* with the DeleteSnapshot requests it sent still outstanding, and the
\* completion of a DeleteSnapshot, whenever it comes, leaves the flow of
\* control, the trace and the results of amiCleanup and the handler alone.
C18_SnapshotsNotAwaited ==
    [][ /\ \A id \in ImageIds :
            (id \in pendingDeregisters /\ id \notin pendingDeregisters') =>
                /\ pc' = "loop"
                /\ \A i \in (Len(trace) + 1)..Len(trace') :
                        trace'[i].cmd = "DeleteSnapshot" =>
                            <<id, trace'[i].DeviceIndex>> \in pendingSnapshots'
        /\ (pendingSnapshots' # pendingSnapshots
                /\ pendingSnapshots' \subseteq pendingSnapshots) =>
                    UNCHANGED <<pc, idx, trace, cleanupResult, handlerResult,
                                pendingDeregisters>>
      ]_vars

\* C18 witness: amiCleanup has resolved, after deregistering a later
\* candidate, while the first DeleteSnapshot of an earlier image is still
\* outstanding and a DeleteSnapshot sent after it has already failed.
C18_Witness ==
    /\ Resolved
    /\ \E a, b \in Candidates :
        /\ \E d1, d2 \in SnapshotDevices(a) :
            /\ d1 < d2
            /\ <<a.ImageId, d1>> \in pendingSnapshots
            /\ <<a.ImageId, d2>> \in FailedSnapshots
        /\ \E i \in Sends("DeleteSnapshot", a.ImageId),
              j \in Sends("DeregisterImage", b.ImageId) : i < j

\* the DeleteSnapshot requests sent for a mapping of an image
SnapshotSends(id, dev) ==
    {i \in Sends("DeleteSnapshot", id) : trace[i].DeviceIndex = dev}

\* C20: from the moment deleteAmi(A) has returned after a successful
\* DeregisterImage, exactly one DeleteSnapshot has been sent for each mapping
\* of A that carries a snapshot id and none for the others, all of them right
\* after the deregistration completed (before anything else is sent or
\* awaited), and exactly one DeregisterImage has been sent for A.
C20_SnapshotsSentOnReturn ==
    \A image \in Catalogue :
        Deregistered(image.ImageId) =>
            /\ Cardinality(Sends("DeregisterImage", image.ImageId)) = 1
            /\ \A dev \in DeviceIndexes :
                    Cardinality(SnapshotSends(image.ImageId, dev))
                        = IF dev \in SnapshotDevices(image) THEN 1 ELSE 0
            /\ \A i \in Sends("DeleteSnapshot", image.ImageId) :
                    \E k \in Completions("ok", "DeregisterImage", image.ImageId) :
                        /\ k < i
                        /\ \A j \in (k + 1)..i :
                                /\ trace[j].cmd = "DeleteSnapshot"
                                /\ trace[j].ImageId = image.ImageId

\* C20 witness: an image with two mappings that carry a snapshot id and one
\* that does not has been deregistered, none of its DeleteSnapshot requests
\* has completed, and the DeregisterImage of the next candidate is in flight.
C20_Witness ==
    /\ pc = "DeregisterImage"
    /\ \E image \in Candidates :
        /\ Deregistered(image.ImageId)
        /\ Cardinality(SnapshotDevices(image)) = 2
        /\ Len(image.BlockDeviceMappings) = 3
        /\ \A dev \in SnapshotDevices(image) : <<image.ImageId, dev>> \in pendingSnapshots

\* the references were collected and the inventory was listed
Collected == Completions("ok", "DescribeImages", "") # {}

\* C19: when every request completes, the invocation completes: the handler
\* resolves (amiCleanup settles), and when no call of the collectors and of
\* the inventory failed, every unreferenced image listed has by then been
\* evaluated and, when it has a date and is old enough, sent a DeregisterImage.
C19_EventuallyCompletes ==
    <>( /\ pc = "done"
        /\ entry = "housekeeperAmi" => handlerResult = "resolved"
        /\ (config.kind = "object" /\ entry = "amiCleanup") =>
                cleanupResult \in {"resolved", "rejected"}
        /\ Collected =>
            /\ cleanupResult = "resolved"
            /\ \A image \in Listed : Unreferenced(image) => FullyProcessed(image) )

\* C19 witness: the handler has resolved after a run that listed three
\* unreferenced images, deregistered one, failed to deregister another and
\* skipped the third.
C19_Witness ==
    /\ entry = "housekeeperAmi" /\ handlerResult = "resolved"
    /\ Collected /\ Resolved
    /\ \E a, b, c \in Candidates :
        /\ Deregistered(a.ImageId)
        /\ DeregisterFailed(b.ImageId)
        /\ Evaluated(c.ImageId) /\ Sends("DeregisterImage", c.ImageId) = {}

====
